---- MODULE Spec2Model ----
(***************************************************************************)
(* DijkstraMapLib: the DijkstraMap distance grid                           *)
(* (classes/DijkstraMap/DijkstraMap.hpp) and the flood-fill generator      *)
(* (DijkstraMapLib.hpp: generateDijkstraMap, findUnreachableTiles,         *)
(* generateDijkstraMapFromSingleGoal).                                     *)
(*                                                                         *)
(* A DijkstraMap object is a record [width, height, distances,             *)
(* distanceType]; distances[x][y] is the vector of vectors of the class.   *)
(* A walkability predicate is a record [cells, outside]: it answers TRUE   *)
(* on the coordinates in `cells`, and `outside` on every coordinate that   *)
(* is not a tile of the grid.  The priority queue is the sequence of its   *)
(* entries in the order std::greater<QueueEntry> pops them.                *)
(***************************************************************************)
EXTENDS Integers, Sequences, FiniteSets, TLC

VARIABLES
    dijkstraMap,       \* the DijkstraMap object
    calls,             \* number of calls made on it since its construction
    lastOp,            \* the last call made
    lastGoals,         \* the goal list of the last generation call
    lastWalkable,      \* the predicate of the last call that took one
    unreachableTiles,  \* the list the last findUnreachableTiles call returned
    before,            \* the object, and the call made before, when the last call began
    lastCoord,         \* the coordinates (of a constructor, the dimensions) passed to the last call
    returned,          \* the value the last calculateDistance call returned
    threw,             \* the exception the last call left by, or "none"
    theQueue,          \* the priority queue of the generateDijkstraMap call in progress
    pc,                \* where the generateDijkstraMap call in progress stands
    runs               \* two generateDijkstraMap calls on separate objects, and the statics they share

vars == <<dijkstraMap, calls, lastOp, lastGoals, lastWalkable, unreachableTiles, before,
          lastCoord, returned, threw, theQueue, pc, runs>>

\* ------------------------------------------------------------- bounds
MaxWidth == 3
MaxHeight == 2
MaxGoals == 2
MaxCalls == 2
MaxCoord == 12
MaxMalformed == 1
MaxOpenSide == 3
MaxRunSide == 2

\* ------------------------------------------------- DijkstraMap.hpp
UNREACHABLE == 2147483647

DistanceType == {"Manhattan", "Chebyshev", "Euclidean"}

Abs(n) == IF n < 0 THEN -n ELSE n

Max(a, b) == IF a < b THEN b ELSE a

\* std::round(std::sqrt(n)) for an integer n >= 0: the r with
\* (r - 1/2)^2 <= n < (r + 1/2)^2 (sqrt of an integer is never k + 1/2).
RoundSqrt(n) ==
    CHOOSE r \in 0..n :
        /\ 4 * n < (2 * r + 1) * (2 * r + 1)
        /\ (r = 0 \/ (2 * r - 1) * (2 * r - 1) <= 4 * n)

\* Mutant: the columns are resized without the fill value (cells start at 0).
DijkstraMap_ZeroFilled(widthParam, heightParam, distTypeParam) ==
    [width |-> widthParam,
     height |-> heightParam,
     distances |-> [x \in 0..(widthParam - 1) |->
                       [y \in 0..(heightParam - 1) |-> 0]],
     distanceType |-> distTypeParam]

\* The constructor: width columns of height cells, all UNREACHABLE.
DijkstraMap(widthParam, heightParam, distTypeParam) ==
    [width |-> widthParam,
     height |-> heightParam,
     distances |-> [x \in 0..(widthParam - 1) |->
                       [y \in 0..(heightParam - 1) |-> UNREACHABLE]],
     distanceType |-> distTypeParam]

\* The constructor passes its int dimensions to std::vector::resize(size_type):
\* a negative int converts to a size above max_size() and resize throws
\* std::length_error.  distances.resize(width) comes first; the columns are
\* resized to height only when there is a column.
DijkstraMapThrows(widthParam, heightParam) ==
    widthParam < 0 \/ (widthParam > 0 /\ heightParam < 0)

getDistance(m, x, y) ==
    IF x < 0 \/ x >= m.width \/ y < 0 \/ y >= m.height
    THEN UNREACHABLE
    ELSE m.distances[x][y]

\* Mutant: a coordinate off the grid is clamped to the nearest tile.
setDistance_Clamps(m, x, y, distance) ==
    LET cx == IF x < 0 THEN 0 ELSE IF x >= m.width THEN m.width - 1 ELSE x
        cy == IF y < 0 THEN 0 ELSE IF y >= m.height THEN m.height - 1 ELSE y
    IN  [m EXCEPT !.distances[cx][cy] = distance]

setDistance(m, x, y, distance) ==
    IF x >= 0 /\ x < m.width /\ y >= 0 /\ y < m.height
    THEN [m EXCEPT !.distances[x][y] = distance]
    ELSE m

isWithinBounds(m, x, y) ==
    x >= 0 /\ x < m.width /\ y >= 0 /\ y < m.height

isReachable(m, x, y) == getDistance(m, x, y) # UNREACHABLE

getDimensions(m) == <<m.width, m.height>>

getDistanceType(m) == m.distanceType

\* Mutant: changing the metric also resets the stored distances.
setDistanceType_Resets(m, distType) ==
    [m EXCEPT !.distanceType = distType,
              !.distances = [x \in 0..(m.width - 1) |->
                                [y \in 0..(m.height - 1) |-> UNREACHABLE]]]

setDistanceType(m, distType) == [m EXCEPT !.distanceType = distType]

\* Mutant: dx is added twice and dy never (std::abs(dx) + std::abs(dx)).
calculateManhattanDistance_DxTwice(dx, dy) == Abs(dx) + Abs(dx)

calculateManhattanDistance(dx, dy) == Abs(dx) + Abs(dy)

\* Mutant: std::min where the code has std::max.
calculateChebyshevDistance_Min(dx, dy) ==
    IF Abs(dx) < Abs(dy) THEN Abs(dx) ELSE Abs(dy)

calculateChebyshevDistance(dx, dy) == Max(Abs(dx), Abs(dy))

\* Mutant: the square root is truncated (a cast without std::round).
calculateEuclideanDistance_Truncates(dx, dy) ==
    LET n == dx * dx + dy * dy
    IN  CHOOSE r \in 0..n : r * r <= n /\ n < (r + 1) * (r + 1)

calculateEuclideanDistance(dx, dy) == RoundSqrt(dx * dx + dy * dy)

calculateDistance(m, x1, y1, x2, y2) ==
    LET dx == x2 - x1
        dy == y2 - y1
    IN  CASE m.distanceType = "Manhattan" -> calculateManhattanDistance(dx, dy)
          [] m.distanceType = "Chebyshev" -> calculateChebyshevDistance(dx, dy)
          [] m.distanceType = "Euclidean" -> calculateEuclideanDistance(dx, dy)
          [] OTHER -> calculateEuclideanDistance(dx, dy)

\* Mutant: the outer loop stops one column early (x < width - 1).
clear_SkipsLastColumn(m) ==
    [m EXCEPT !.distances =
        [x \in 0..(m.width - 1) |->
            IF x < m.width - 1 THEN [y \in 0..(m.height - 1) |-> UNREACHABLE]
            ELSE m.distances[x]]]

clear(m) ==
    [m EXCEPT !.distances =
        [x \in 0..(m.width - 1) |-> [y \in 0..(m.height - 1) |-> UNREACHABLE]]]

\* ------------------------------------------------- DijkstraMapLib.hpp
\* The caller's predicate bool(int x, int y).
isWalkable(walkable, m, x, y) ==
    IF isWithinBounds(m, x, y) THEN <<x, y>> \in walkable.cells
    ELSE walkable.outside

\* Mutant: the table lacks the step to the west.
fourDirectional_NoWest == << <<0, 1>>, <<0, -1>>, <<1, 0>> >>

fourDirectional == << <<0, 1>>, <<0, -1>>, <<1, 0>>, <<-1, 0>> >>

\* Mutant: the table lacks the diagonal step <<-1, -1>>.
eightDirectional_SevenSteps ==
    << <<0, 1>>, <<0, -1>>, <<1, 0>>, <<-1, 0>>,
       <<1, 1>>, <<1, -1>>, <<-1, 1>> >>

eightDirectional ==
    << <<0, 1>>, <<0, -1>>, <<1, 0>>, <<-1, 0>>,
       <<1, 1>>, <<1, -1>>, <<-1, 1>>, <<-1, -1>> >>

\* Mutant: eight directions whatever the metric.
getDirections_AlwaysEight(distType) == eightDirectional

\* Mutant: four directions for Manhattan only.
getDirections_FourForManhattanOnly(distType) ==
    IF distType = "Manhattan" THEN fourDirectional ELSE eightDirectional

getDirections(distType) ==
    IF distType = "Chebyshev" THEN eightDirectional ELSE fourDirectional

\* Mutant: the comparator is std::less: the greatest entry is popped first.
EntryLess_Reversed(a, b) ==
    \/ b[1] < a[1]
    \/ a[1] = b[1] /\ b[2] < a[2]
    \/ a[1] = b[1] /\ a[2] = b[2] /\ b[3] < a[3]

\* std::greater<QueueEntry> on (distance, x, y): a is popped before b.
EntryLess(a, b) ==
    \/ a[1] < b[1]
    \/ a[1] = b[1] /\ a[2] < b[2]
    \/ a[1] = b[1] /\ a[2] = b[2] /\ a[3] < b[3]

\* Mutant: the container is a stack: the entry pushed last is popped first.
QueuePush_Prepends(queue, entry) == <<entry>> \o queue

RECURSIVE QueuePush(_, _)
QueuePush(queue, entry) ==
    IF queue = << >> THEN <<entry>>
    ELSE IF EntryLess(entry, Head(queue)) THEN <<entry>> \o queue
    ELSE <<Head(queue)>> \o QueuePush(Tail(queue), entry)

QueueTop(queue) == Head(queue)

\* Mutant: the loop reads queue.top() and never calls queue.pop().
QueuePop_KeepsTop(queue) == queue

QueuePop(queue) == Tail(queue)

\* The loop of initializeGoals from goal number i on; st = [map, queue].
RECURSIVE initializeGoalsFrom(_, _, _, _)
initializeGoalsFrom(st, goals, walkable, i) ==
    IF i > Len(goals) THEN st
    ELSE LET goalX == goals[i][1]
             goalY == goals[i][2]
         IN  IF ~isWithinBounds(st.map, goalX, goalY)
                \/ ~isWalkable(walkable, st.map, goalX, goalY)
             THEN initializeGoalsFrom(st, goals, walkable, i + 1)
             ELSE initializeGoalsFrom(
                    [map |-> setDistance(st.map, goalX, goalY, 0),
                     queue |-> QueuePush(st.queue, <<0, goalX, goalY>>)],
                    goals, walkable, i + 1)

\* Mutant: the isWalkable test on the goal is left out.
initializeGoals_BoundsOnly(st, goals, walkable) ==
    initializeGoalsFrom(st, goals,
                        [cells |-> (0..(st.map.width - 1)) \X (0..(st.map.height - 1)),
                         outside |-> TRUE],
                        1)

\* Mutant: the loop returns after the first goal of the list.
initializeGoals_FirstOnly(st, goals, walkable) ==
    initializeGoalsFrom(st, SubSeq(goals, 1, IF goals = << >> THEN 0 ELSE 1), walkable, 1)

\* Mutant: an accepted goal is pushed and its distance is not set to 0.
initializeGoals_PushOnly(st, goals, walkable) ==
    [map |-> st.map, queue |-> initializeGoalsFrom(st, goals, walkable, 1).queue]

initializeGoals(st, goals, walkable) == initializeGoalsFrom(st, goals, walkable, 1)

\* Mutant: the isWalkable test on the neighbour is left out.
processNeighbor_BoundsOnly(st, currentDist, currentX, currentY, dx, dy, walkable) ==
    LET neighborX == currentX + dx
        neighborY == currentY + dy
    IN  IF ~isWithinBounds(st.map, neighborX, neighborY)
        THEN st
        ELSE LET movementCost ==
                     calculateDistance(st.map, currentX, currentY, neighborX, neighborY)
                 newDistance == currentDist + movementCost
             IN  IF newDistance >= getDistance(st.map, neighborX, neighborY)
                 THEN st
                 ELSE [map |-> setDistance(st.map, neighborX, neighborY, newDistance),
                       queue |-> QueuePush(st.queue, <<newDistance, neighborX, neighborY>>)]

\* Mutant: the improved neighbour is stored and never pushed on the queue.
processNeighbor_NoPush(st, currentDist, currentX, currentY, dx, dy, walkable) ==
    LET neighborX == currentX + dx
        neighborY == currentY + dy
    IN  IF ~isWithinBounds(st.map, neighborX, neighborY)
           \/ ~isWalkable(walkable, st.map, neighborX, neighborY)
        THEN st
        ELSE LET movementCost ==
                     calculateDistance(st.map, currentX, currentY, neighborX, neighborY)
                 newDistance == currentDist + movementCost
             IN  IF newDistance >= getDistance(st.map, neighborX, neighborY)
                 THEN st
                 ELSE [map |-> setDistance(st.map, neighborX, neighborY, newDistance),
                       queue |-> st.queue]

\* Mutant: the entry pushed carries the neighbour's old stored distance.
processNeighbor_PushesStored(st, currentDist, currentX, currentY, dx, dy, walkable) ==
    LET neighborX == currentX + dx
        neighborY == currentY + dy
    IN  IF ~isWithinBounds(st.map, neighborX, neighborY)
           \/ ~isWalkable(walkable, st.map, neighborX, neighborY)
        THEN st
        ELSE LET movementCost ==
                     calculateDistance(st.map, currentX, currentY, neighborX, neighborY)
                 newDistance == currentDist + movementCost
                 oldDistance == getDistance(st.map, neighborX, neighborY)
             IN  IF newDistance >= oldDistance
                 THEN st
                 ELSE [map |-> setDistance(st.map, neighborX, neighborY, newDistance),
                       queue |-> QueuePush(st.queue, <<oldDistance, neighborX, neighborY>>)]

processNeighbor(st, currentDist, currentX, currentY, dx, dy, walkable) ==
    LET neighborX == currentX + dx
        neighborY == currentY + dy
    IN  IF ~isWithinBounds(st.map, neighborX, neighborY)
           \/ ~isWalkable(walkable, st.map, neighborX, neighborY)
        THEN st
        ELSE LET movementCost ==
                     calculateDistance(st.map, currentX, currentY, neighborX, neighborY)
                 newDistance == currentDist + movementCost
             IN  IF newDistance >= getDistance(st.map, neighborX, neighborY)
                 THEN st
                 ELSE [map |-> setDistance(st.map, neighborX, neighborY, newDistance),
                       queue |-> QueuePush(st.queue, <<newDistance, neighborX, neighborY>>)]

\* for (const auto& [dx, dy] : directions) processNeighbor(...), from direction i on.
\* The state left by direction i - 1 is bound as a value (s \in {st}), so that
\* each call evaluates it once, under ENABLED too.
RECURSIVE processNeighborsFrom(_, _, _, _, _, _)
processNeighborsFrom(st, current, directions, walkable, i, n) ==
    IF i > n THEN st
    ELSE CHOOSE after \in
            {processNeighborsFrom(
                processNeighbor(s, current[1], current[2], current[3],
                                directions[i][1], directions[i][2], walkable),
                current, directions, walkable, i + 1, n) : s \in {st}} : TRUE

\* Mutant: the popped entry is skipped when its distance is >= the stored one.
floodFillStep_SkipsEqual(st, directions, walkable) ==
    LET current == QueueTop(st.queue)
        popped == [st EXCEPT !.queue = QueuePop(st.queue)]
    IN  IF current[1] >= getDistance(st.map, current[2], current[3])
        THEN popped
        ELSE processNeighborsFrom(popped, current, directions, walkable,
                                  1, Len(directions))

\* One iteration of the while loop of generateDijkstraMap on a non-empty queue.
floodFillStep(st, directions, walkable) ==
    LET current == QueueTop(st.queue)
        popped == [st EXCEPT !.queue = QueuePop(st.queue)]
    IN  IF current[1] > getDistance(st.map, current[2], current[3])
        THEN popped
        ELSE processNeighborsFrom(popped, current, directions, walkable,
                                  1, Len(directions))

\* The values of newDistance that one iteration of the while loop computes:
\* one for each direction whose neighbour passes the bounds and walkability
\* tests of processNeighbor; none when the popped entry is skipped as stale.
newDistances(st, directions, walkable) ==
    LET current == QueueTop(st.queue)
    IN  IF current[1] > getDistance(st.map, current[2], current[3])
        THEN {}
        ELSE {current[1] + calculateDistance(st.map, current[2], current[3],
                                             current[2] + directions[i][1],
                                             current[3] + directions[i][2]) :
                i \in {j \in 1..Len(directions) :
                         /\ isWithinBounds(st.map, current[2] + directions[j][1],
                                           current[3] + directions[j][2])
                         /\ isWalkable(walkable, st.map,
                                       current[2] + directions[j][1],
                                       current[3] + directions[j][2])}}

RECURSIVE floodFill(_, _, _)
floodFill(st, directions, walkable) ==
    IF st.queue = << >> THEN st
    ELSE floodFill(floodFillStep(st, directions, walkable), directions, walkable)

generateDijkstraMap(m, goals, walkable) ==
    LET cleared == clear(m)
        seeded == initializeGoals([map |-> cleared, queue |-> << >>], goals, walkable)
        directions == getDirections(getDistanceType(seeded.map))
    IN  floodFill(seeded, directions, walkable).map

\* The coordinates pushed by the double loop, x outer and y inner, from (x, y) on.
RECURSIVE findUnreachableTilesFrom(_, _, _, _)
findUnreachableTilesFrom(m, walkable, x, y) ==
    IF x >= getDimensions(m)[1] THEN << >>
    ELSE IF y >= getDimensions(m)[2] THEN findUnreachableTilesFrom(m, walkable, x + 1, 0)
    ELSE (IF isWalkable(walkable, m, x, y) /\ ~isReachable(m, x, y)
          THEN << <<x, y>> >> ELSE << >>)
         \o findUnreachableTilesFrom(m, walkable, x, y + 1)

\* Mutant: the scan leaves out the isWalkable test.
findUnreachableTiles_IgnoresPredicate(m, walkable) ==
    findUnreachableTilesFrom(m,
                             [cells |-> (0..(m.width - 1)) \X (0..(m.height - 1)),
                              outside |-> TRUE],
                             0, 0)

findUnreachableTiles(m, walkable) == findUnreachableTilesFrom(m, walkable, 0, 0)

\* Mutant: the goal test reads !isWalkable(x, y) || !isWithinBounds(x, y).
initializeGoalsAsks_PredicateFirst(m, goals) ==
    {<<goals[i][1], goals[i][2]>> : i \in 1..Len(goals)}

\* The coordinates on which initializeGoals invokes the caller's predicate: in
\* !isWithinBounds(x, y) || !isWalkable(x, y) the right operand is evaluated
\* only when the left one is false.
initializeGoalsAsks(m, goals) ==
    {<<goals[i][1], goals[i][2]>> :
        i \in {j \in 1..Len(goals) : isWithinBounds(m, goals[j][1], goals[j][2])}}

\* The same for one call of processNeighbor.
processNeighborAsks(m, currentX, currentY, dx, dy) ==
    LET neighborX == currentX + dx
        neighborY == currentY + dy
    IN  IF ~isWithinBounds(m, neighborX, neighborY) THEN {}
        ELSE {<<neighborX, neighborY>>}

\* The same for one iteration of the while loop of generateDijkstraMap.
floodFillStepAsks(st, directions) ==
    LET current == QueueTop(st.queue)
    IN  IF current[1] > getDistance(st.map, current[2], current[3])
        THEN {}
        ELSE UNION {processNeighborAsks(st.map, current[2], current[3],
                                        directions[i][1], directions[i][2]) :
                      i \in 1..Len(directions)}

\* The same for findUnreachableTiles, from (x, y) on: isWalkable(x, y) is the
\* left operand of the && and is evaluated at every (x, y) of the double loop.
RECURSIVE findUnreachableTilesAsksFrom(_, _, _)
findUnreachableTilesAsksFrom(m, x, y) ==
    IF x >= getDimensions(m)[1] THEN {}
    ELSE IF y >= getDimensions(m)[2] THEN findUnreachableTilesAsksFrom(m, x + 1, 0)
    ELSE {<<x, y>>} \cup findUnreachableTilesAsksFrom(m, x, y + 1)

findUnreachableTilesAsks(m) == findUnreachableTilesAsksFrom(m, 0, 0)

\* Mutant: the goal is passed as (y, x).
generateDijkstraMapFromSingleGoal_Swapped(m, goalX, goalY, walkable) ==
    generateDijkstraMap(m, << <<goalY, goalX>> >>, walkable)

generateDijkstraMapFromSingleGoal(m, goalX, goalY, walkable) ==
    generateDijkstraMap(m, << <<goalX, goalY>> >>, walkable)

\* ------------------------------------------------- the callers
Cells(m) == (0..(m.width - 1)) \X (0..(m.height - 1))

\* The coordinates callers pass: every tile, one coordinate left of the grid and
\* one below it.
Coords(m) == Cells(m) \cup {<<-1, 0>>, <<0, m.height>>}

RECURSIVE SeqsUpTo(_, _)
SeqsUpTo(S, n) ==
    IF n = 0 THEN {<< >>}
    ELSE LET shorter == SeqsUpTo(S, n - 1)
         IN  shorter \cup {Append(s, e) : s \in shorter, e \in S}

\* Every predicate over the tiles; off the grid they answer TRUE, as the
\* fixtures' allWalkable, walkableWithWalls and centerBlocked do.
Predicates(m) == [cells : SUBSET Cells(m), outside : {TRUE}]

allWalkable(m) == [cells |-> Cells(m), outside |-> TRUE]

NoPredicate == [cells |-> {}, outside |-> FALSE]

FarCorner(m) == <<m.width - 1, m.height - 1>>

\* The first call on an object draws its arguments from the full sets; a later
\* call reuses the arguments of the call before it or takes one of a few others.
GoalArgs ==
    IF calls = 0 THEN SeqsUpTo(Coords(dijkstraMap), MaxGoals)
    ELSE {lastGoals, <<FarCorner(dijkstraMap)>>}

PredicateArgs ==
    IF calls = 0 THEN Predicates(dijkstraMap)
    ELSE {lastWalkable, allWalkable(dijkstraMap)}

CoordArgs ==
    IF calls = 0 THEN Coords(dijkstraMap)
    ELSE {<<0, 0>>, <<-1, 0>>}

DistanceArgs == IF calls = 0 THEN {0, 1, UNREACHABLE} ELSE {0}

\* The predicate answering on every tile the opposite of walkable.
Opposite(m, walkable) == [cells |-> Cells(m) \ walkable.cells, outside |-> TRUE]

ScanPredicateArgs ==
    PredicateArgs \cup
        (IF calls = 0 THEN {} ELSE {Opposite(dijkstraMap, lastWalkable)})

Snapshot == [map |-> dijkstraMap, op |-> lastOp, goals |-> lastGoals,
             walkable |-> lastWalkable]

Init ==
    \E w \in 1..MaxWidth, h \in 1..MaxHeight, distType \in DistanceType :
        /\ dijkstraMap = DijkstraMap(w, h, distType)
        /\ calls = 0
        /\ lastOp = "DijkstraMap"
        /\ lastGoals = << >>
        /\ lastWalkable = NoPredicate
        /\ unreachableTiles = << >>
        /\ before = [map |-> DijkstraMap(w, h, distType), op |-> "none",
                     goals |-> << >>, walkable |-> NoPredicate]
        /\ lastCoord = << >>
        /\ returned = 0
        /\ threw = "none"
        /\ theQueue = << >>
        /\ pc = "idle"
        /\ runs = << >>

\* No object exists when the constructor left by an exception.
NoObject == "no object"

\* Construction with dimensions of any sign.
InitMalformed ==
    \E w \in -MaxMalformed..MaxMalformed, h \in -MaxMalformed..MaxMalformed,
       distType \in DistanceType :
        LET made == IF DijkstraMapThrows(w, h) THEN NoObject
                    ELSE DijkstraMap(w, h, distType)
        IN  /\ threw = IF DijkstraMapThrows(w, h) THEN "std::length_error" ELSE "none"
            /\ dijkstraMap = made
            /\ calls = 0
            /\ lastOp = "DijkstraMap"
            /\ lastGoals = << >>
            /\ lastWalkable = NoPredicate
            /\ unreachableTiles = << >>
            /\ before = [map |-> made, op |-> "none",
                         goals |-> << >>, walkable |-> NoPredicate]
            /\ lastCoord = <<w, h>>
            /\ returned = 0
            /\ theQueue = << >>
            /\ pc = "idle"
            /\ runs = << >>

Called(op) ==
    /\ calls < MaxCalls
    /\ calls' = calls + 1
    /\ lastOp' = op
    /\ before' = Snapshot
    /\ UNCHANGED <<threw, theQueue, pc, runs>>

SetDistance ==
    \E c \in CoordArgs, distance \in DistanceArgs :
        /\ Called("setDistance")
        /\ dijkstraMap' = setDistance(dijkstraMap, c[1], c[2], distance)
        /\ lastCoord' = c
        /\ UNCHANGED <<lastGoals, lastWalkable, unreachableTiles, returned>>

SetDistanceType ==
    \E distType \in DistanceType :
        /\ Called("setDistanceType")
        /\ dijkstraMap' = setDistanceType(dijkstraMap, distType)
        /\ UNCHANGED <<lastGoals, lastWalkable, unreachableTiles, lastCoord, returned>>

Clear ==
    /\ Called("clear")
    /\ dijkstraMap' = clear(dijkstraMap)
    /\ UNCHANGED <<lastGoals, lastWalkable, unreachableTiles, lastCoord, returned>>

GenerateDijkstraMap ==
    \E goals \in GoalArgs, walkable \in PredicateArgs :
        /\ Called("generateDijkstraMap")
        /\ dijkstraMap' = generateDijkstraMap(dijkstraMap, goals, walkable)
        /\ lastGoals' = goals
        /\ lastWalkable' = walkable
        /\ UNCHANGED <<unreachableTiles, lastCoord, returned>>

GenerateDijkstraMapFromSingleGoal ==
    \E c \in CoordArgs, walkable \in PredicateArgs :
        /\ Called("generateDijkstraMapFromSingleGoal")
        /\ dijkstraMap' = generateDijkstraMapFromSingleGoal(dijkstraMap, c[1], c[2], walkable)
        /\ lastGoals' = <<c>>
        /\ lastWalkable' = walkable
        /\ UNCHANGED <<unreachableTiles, lastCoord, returned>>

FindUnreachableTiles ==
    \E walkable \in ScanPredicateArgs :
        /\ Called("findUnreachableTiles")
        /\ unreachableTiles' = findUnreachableTiles(dijkstraMap, walkable)
        /\ lastWalkable' = walkable
        /\ UNCHANGED <<dijkstraMap, lastGoals, lastCoord, returned>>

\* The second coordinate of a calculateDistance call: on the grid or far off it.
FarCoordArgs == (-1..MaxCoord) \X (-1..MaxCoord)

CalculateDistance ==
    \E c1 \in CoordArgs, c2 \in FarCoordArgs :
        /\ Called("calculateDistance")
        /\ returned' = calculateDistance(dijkstraMap, c1[1], c1[2], c2[1], c2[2])
        /\ lastCoord' = <<c1[1], c1[2], c2[1], c2[2]>>
        /\ UNCHANGED <<dijkstraMap, lastGoals, lastWalkable, unreachableTiles>>

Next ==
    \/ SetDistance
    \/ SetDistanceType
    \/ Clear
    \/ GenerateDijkstraMap
    \/ GenerateDijkstraMapFromSingleGoal
    \/ FindUnreachableTiles

Spec == Init /\ [][Next]_vars

\* The calls made on an object constructed with dimensions of any sign; no call
\* is made when the constructor threw.
NextMalformed == threw = "none" /\ Next

SpecMalformed == InitMalformed /\ [][NextMalformed]_vars

\* ------------------------------------------------- one generation, step by step
\* A run of generateDijkstraMap(dijkstraMap, goals, walkable) on a constructed
\* grid: pc is "idle" before the call, "loop" at the test of the while loop and
\* "done" after the return.
RunFrame == UNCHANGED <<unreachableTiles, lastCoord, returned, threw, runs>>

\* The call: map.clear(); the queue is created; initializeGoals(map, goals,
\* isWalkable, queue).
GenerateBegin ==
    /\ pc = "idle"
    /\ \E goals \in SeqsUpTo(Coords(dijkstraMap), MaxGoals),
          walkable \in Predicates(dijkstraMap) :
          LET st == initializeGoals([map |-> clear(dijkstraMap), queue |-> << >>],
                                    goals, walkable)
          IN  /\ dijkstraMap' = st.map
              /\ theQueue' = st.queue
              /\ lastGoals' = goals
              /\ lastWalkable' = walkable
    /\ pc' = "loop"
    /\ calls' = calls + 1
    /\ lastOp' = "generateDijkstraMap"
    /\ before' = Snapshot
    /\ RunFrame

\* One iteration of while (!queue.empty()).
GenerateLoop ==
    /\ pc = "loop"
    /\ theQueue # << >>
    /\ LET st == floodFillStep([map |-> dijkstraMap, queue |-> theQueue],
                               getDirections(getDistanceType(dijkstraMap)),
                               lastWalkable)
       IN  /\ dijkstraMap' = st.map
           /\ theQueue' = st.queue
    /\ pc' = "loop"
    /\ UNCHANGED <<calls, lastOp, lastGoals, lastWalkable, before>>
    /\ RunFrame

\* The loop test fails on the empty queue and the function returns.
GenerateReturn ==
    /\ pc = "loop"
    /\ theQueue = << >>
    /\ pc' = "done"
    /\ UNCHANGED <<dijkstraMap, theQueue, calls, lastOp, lastGoals, lastWalkable, before>>
    /\ RunFrame

NextRun ==
    \/ GenerateBegin
    \/ GenerateLoop
    \/ GenerateReturn

SpecRun == Init /\ [][NextRun]_vars

\* Once called, the function runs on its caller's thread and nothing suspends
\* it: an iteration, or the return, that can be taken is taken.
FairSpecRun == SpecRun /\ WF_vars(GenerateLoop) /\ WF_vars(GenerateReturn)

\* The queue with entry number i moved to the top.
ToTop(entries, i) ==
    <<entries[i]>> \o SubSeq(entries, 1, i - 1) \o SubSeq(entries, i + 1, Len(entries))

\* One iteration of the loop under a priority queue that breaks ties between
\* entries of equal distance in any way: top() is any entry of least distance.
GenerateLoopAnyOrder ==
    /\ pc = "loop"
    /\ theQueue # << >>
    /\ \E i \in 1..Len(theQueue) :
          /\ theQueue[i][1] = theQueue[1][1]
          /\ LET st == floodFillStep([map |-> dijkstraMap, queue |-> ToTop(theQueue, i)],
                                     getDirections(getDistanceType(dijkstraMap)),
                                     lastWalkable)
             IN  /\ dijkstraMap' = st.map
                 /\ theQueue' = st.queue
    /\ pc' = "loop"
    /\ UNCHANGED <<calls, lastOp, lastGoals, lastWalkable, before>>
    /\ RunFrame

NextAnyOrder ==
    \/ GenerateBegin
    \/ GenerateLoopAnyOrder
    \/ GenerateReturn

SpecAnyOrder == Init /\ [][NextAnyOrder]_vars

\* ------------------------------------------------- open grids
\* Grids up to MaxOpenSide x MaxOpenSide, every tile walkable, generated from one
\* goal on the grid.
InitOpen ==
    \E w \in 1..MaxOpenSide, h \in 1..MaxOpenSide, distType \in DistanceType :
        /\ dijkstraMap = DijkstraMap(w, h, distType)
        /\ calls = 0
        /\ lastOp = "DijkstraMap"
        /\ lastGoals = << >>
        /\ lastWalkable = NoPredicate
        /\ unreachableTiles = << >>
        /\ before = [map |-> DijkstraMap(w, h, distType), op |-> "none",
                     goals |-> << >>, walkable |-> NoPredicate]
        /\ lastCoord = << >>
        /\ returned = 0
        /\ threw = "none"
        /\ theQueue = << >>
        /\ pc = "idle"
        /\ runs = << >>

GenerateOnOpenGrid ==
    \E goal \in Cells(dijkstraMap) :
        /\ Called("generateDijkstraMap")
        /\ dijkstraMap' = generateDijkstraMap(dijkstraMap, <<goal>>, allWalkable(dijkstraMap))
        /\ lastGoals' = <<goal>>
        /\ lastWalkable' = allWalkable(dijkstraMap)
        /\ UNCHANGED <<unreachableTiles, lastCoord, returned>>

NextOpen ==
    \/ GenerateOnOpenGrid
    \/ SetDistanceType

SpecOpen == InitOpen /\ [][NextOpen]_vars

\* ------------------------------------------------- two generations interleaved
\* The function-local statics of getDirections: two const tables, initialised
\* by the first call that reaches their declarations and never written again.
Uninitialised == [fourDirectional |-> << >>, eightDirectional |-> << >>]

\* Mutant: one static table, refilled by every call with the table of its metric.
getDirectionsStatics_OneTable(statics, distType) ==
    [fourDirectional |-> getDirections(distType),
     eightDirectional |-> getDirections(distType)]

\* The statics after a call of getDirections.
getDirectionsStatics(statics, distType) ==
    [fourDirectional |-> fourDirectional, eightDirectional |-> eightDirectional]

\* The table the reference returned by getDirections denotes.
getDirectionsIn(statics, distType) ==
    IF distType = "Chebyshev" THEN statics.eightDirectional ELSE statics.fourDirectional

\* A run is [map, goals, walkable, queue, pc]: the arguments and the local queue
\* of one call, pc as in GenerateBegin, GenerateLoop, GenerateReturn.
\* The call up to the loop: clear, initializeGoals, getDirections.
runBegin(run, statics) ==
    LET st == initializeGoals([map |-> clear(run.map), queue |-> << >>],
                              run.goals, run.walkable)
    IN  [run |-> [run EXCEPT !.map = st.map, !.queue = st.queue, !.pc = "loop"],
         statics |-> getDirectionsStatics(statics, getDistanceType(run.map))]

\* One iteration of the loop, reading the table through the reference.
runLoop(run, statics) ==
    LET st == floodFillStep([map |-> run.map, queue |-> run.queue],
                            getDirectionsIn(statics, getDistanceType(run.map)),
                            run.walkable)
    IN  [run |-> [run EXCEPT !.map = st.map, !.queue = st.queue],
         statics |-> statics]

runReturn(run, statics) == [run |-> [run EXCEPT !.pc = "done"], statics |-> statics]

\* The next step of a run.
runStep(run, statics) ==
    IF run.pc = "idle" THEN runBegin(run, statics)
    ELSE IF run.pc = "loop" /\ run.queue # << >> THEN runLoop(run, statics)
    ELSE runReturn(run, statics)

\* The calls two callers make: small grids, one goal or a goal and a coordinate
\* off the grid, every tile walkable or all but the far corner.
RunArgsOn(m) ==
    {[map |-> m, goals |-> goals, walkable |-> walkable, queue |-> << >>, pc |-> "idle"] :
        goals \in {<< <<0, 0>> >>, << <<m.width - 1, 0>>, <<-1, 0>> >>},
        walkable \in {allWalkable(m),
                      [cells |-> Cells(m) \ {FarCorner(m)}, outside |-> TRUE]}}

RunArgs ==
    UNION {RunArgsOn(DijkstraMap(w, h, distType)) :
             w \in 1..MaxRunSide, h \in 1..MaxRunSide, distType \in DistanceType}

InitTwoRuns ==
    \E first \in RunArgs, second \in RunArgs :
        /\ runs = [run |-> <<first, second>>, statics |-> Uninitialised]
        /\ dijkstraMap = NoObject
        /\ calls = 0
        /\ lastOp = "none"
        /\ lastGoals = << >>
        /\ lastWalkable = NoPredicate
        /\ unreachableTiles = << >>
        /\ before = NoObject
        /\ lastCoord = << >>
        /\ returned = 0
        /\ threw = "none"
        /\ theQueue = << >>
        /\ pc = "idle"

TwoRunsFrame ==
    UNCHANGED <<dijkstraMap, calls, lastOp, lastGoals, lastWalkable, unreachableTiles,
                before, lastCoord, returned, threw, theQueue, pc>>

Stepped(i, result) ==
    runs' = [run |-> [runs.run EXCEPT ![i] = result.run], statics |-> result.statics]

TwoRunsBegin(i) ==
    /\ runs.run[i].pc = "idle"
    /\ Stepped(i, runBegin(runs.run[i], runs.statics))
    /\ TwoRunsFrame

TwoRunsLoop(i) ==
    /\ runs.run[i].pc = "loop"
    /\ runs.run[i].queue # << >>
    /\ Stepped(i, runLoop(runs.run[i], runs.statics))
    /\ TwoRunsFrame

TwoRunsReturn(i) ==
    /\ runs.run[i].pc = "loop"
    /\ runs.run[i].queue = << >>
    /\ Stepped(i, runReturn(runs.run[i], runs.statics))
    /\ TwoRunsFrame

NextTwoRuns ==
    \E i \in 1..2 :
        \/ TwoRunsBegin(i)
        \/ TwoRunsLoop(i)
        \/ TwoRunsReturn(i)

SpecTwoRuns == InitTwoRuns /\ [][NextTwoRuns]_vars

\* ------------------------------------------------- a run and a scan of its result
\* findUnreachableTiles(dijkstraMap, walkable) called once the run has returned,
\* with the run's predicate or with the one that accepts every tile.
FindUnreachableTilesAfterRun ==
    /\ pc = "done"
    /\ \E walkable \in {lastWalkable, allWalkable(dijkstraMap)} :
          /\ unreachableTiles' = findUnreachableTiles(dijkstraMap, walkable)
          /\ lastWalkable' = walkable
    /\ pc' = "scanned"
    /\ calls' = calls + 1
    /\ lastOp' = "findUnreachableTiles"
    /\ before' = Snapshot
    /\ UNCHANGED <<dijkstraMap, theQueue, lastGoals, lastCoord, returned, threw, runs>>

NextRunScan ==
    \/ GenerateBegin
    \/ GenerateLoop
    \/ GenerateReturn
    \/ FindUnreachableTilesAfterRun

SpecRunScan == Init /\ [][NextRunScan]_vars

\* calculateDistance called on fresh grids and on grids holding a set distance.
NextCalc ==
    \/ SetDistance
    \/ CalculateDistance

SpecCalc == Init /\ [][NextCalc]_vars

\* ------------------------------------------------- reference notions
\* These are written from the definitions of shortest path and connectivity, not
\* from the generator; the claims compare the generator's grid with them.
Range(seq) == {seq[i] : i \in 1..Len(seq)}

MinOf(S) == CHOOSE n \in S : \A k \in S : n <= k

Generated == lastOp \in {"generateDijkstraMap", "generateDijkstraMapFromSingleGoal"}

Fresh == DijkstraMap(dijkstraMap.width, dijkstraMap.height, dijkstraMap.distanceType)

Stored(c) == getDistance(dijkstraMap, c[1], c[2])

Walkable(c) == c \in Cells(dijkstraMap) /\ c \in lastWalkable.cells

\* The goals of the last generation that are tiles of the grid and walkable.
AcceptedGoals == {g \in Range(lastGoals) : Walkable(g)}

\* The metric's neighbourhood: 8 steps under Chebyshev, else the 4 orthogonal ones.
Steps ==
    {d \in (-1..1) \X (-1..1) :
        /\ d # <<0, 0>>
        /\ dijkstraMap.distanceType # "Chebyshev" => Abs(d[1]) + Abs(d[2]) = 1}

Orthogonal == {d \in (-1..1) \X (-1..1) : Abs(d[1]) + Abs(d[2]) = 1}

Diagonal == {d \in (-1..1) \X (-1..1) : Abs(d[1]) + Abs(d[2]) = 2}

\* The walkable tiles one step of `steps` away from tile c.
Neighbours(c, steps) ==
    {n \in Cells(dijkstraMap) :
        /\ Walkable(n)
        /\ <<c[1] - n[1], c[2] - n[2]>> \in steps}

StepCost(n, c) == calculateDistance(dijkstraMap, n[1], n[2], c[1], c[2])

\* A distance table is a set of pairs <<tile, distance>>, one for each tile;
\* UNREACHABLE stands for "no path".
At(table, c) == (CHOOSE p \in table : p[1] = c)[2]

\* One round of relaxation of every tile (Bellman-Ford).
Relaxed(table) ==
    {<<c, IF ~Walkable(c) THEN At(table, c)
          ELSE MinOf({At(table, c)} \cup
                     {At(table, n) + StepCost(n, c) :
                        n \in {k \in Neighbours(c, Steps) : At(table, k) # UNREACHABLE}})>> :
        c \in Cells(dijkstraMap)}

RECURSIVE RelaxedTimes(_, _)
RelaxedTimes(table, k) ==
    IF k = 0 THEN table ELSE RelaxedTimes(Relaxed(table), k - 1)

\* The multi-source shortest-path distance from the accepted goals: a shortest
\* path visits no tile twice, so it has fewer edges than there are tiles.
ShortestDistance ==
    RelaxedTimes({<<c, IF c \in AcceptedGoals THEN 0 ELSE UNREACHABLE>> :
                    c \in Cells(dijkstraMap)},
                 Cardinality(Cells(dijkstraMap)))

RECURSIVE ConnectedFrom(_)
ConnectedFrom(R) ==
    LET more == {c \in Cells(dijkstraMap) :
                    Walkable(c) /\ \E n \in Neighbours(c, Steps) : n \in R}
    IN  IF more \subseteq R THEN R ELSE ConnectedFrom(R \cup more)

\* The tiles linked to an accepted goal by a chain of walkable tiles.
Connected == ConnectedFrom(AcceptedGoals)

\* ------------------------------------------------- claims
\* C1: after a generation, every walkable tile connected to an accepted goal
\* holds the multi-source shortest-path distance from the accepted goals, the
\* cost of a step being calculateDistance between its two tiles.
C1_ShortestPath ==
    Generated =>
        LET ref == ShortestDistance
        IN  \A c \in Cells(dijkstraMap) :
                (Walkable(c) /\ At(ref, c) # UNREACHABLE) => Stored(c) = At(ref, c)

\* A generation from two accepted goals, round a non-walkable tile, with a tile
\* farther from the goal nearest as the crow flies than its Manhattan distance
\* to it (a detour).
C1_Witness ==
    /\ lastOp = "generateDijkstraMap"
    /\ Cardinality(AcceptedGoals) = 2
    /\ \E c \in Cells(dijkstraMap), g \in AcceptedGoals :
          /\ Stored(c) # UNREACHABLE
          /\ Stored(c) > Abs(c[1] - g[1]) + Abs(c[2] - g[2])

\* C2: after a generation a coordinate is reachable iff it is a walkable tile
\* linked to an accepted goal by walkable tiles under the metric's neighbourhood;
\* coordinates off the grid, non-walkable tiles and cut-off tiles are UNREACHABLE.
C2_ReachableIffConnected ==
    Generated =>
        LET connected == Connected
        IN  \A x \in -1..dijkstraMap.width, y \in -1..dijkstraMap.height :
                isReachable(dijkstraMap, x, y) <=> <<x, y>> \in connected

\* Goal (0,0) with a full wall column: the tiles left of the wall are reachable
\* and the walkable tiles right of it are not.
C2_Witness ==
    /\ Generated
    /\ AcceptedGoals = {<<0, 0>>}
    /\ \E wall \in 1..(dijkstraMap.width - 2) :
          /\ \A y \in 0..(dijkstraMap.height - 1) : ~Walkable(<<wall, y>>)
          /\ \A c \in Cells(dijkstraMap) :
                /\ c[1] < wall => Walkable(c) /\ Stored(c) # UNREACHABLE
                /\ c[1] > wall => Walkable(c) /\ Stored(c) = UNREACHABLE

\* C3: after a generation the tiles holding 0 are exactly the goals that are
\* tiles of the grid and walkable; a goal off the grid or on a non-walkable
\* tile is skipped (its tile, if any, stays UNREACHABLE), and with no accepted
\* goal every tile is UNREACHABLE.
C3_ZeroIffAcceptedGoal ==
    Generated =>
        /\ {c \in Cells(dijkstraMap) : Stored(c) = 0} = AcceptedGoals
        /\ \A g \in Range(lastGoals) : ~Walkable(g) => Stored(g) = UNREACHABLE
        /\ AcceptedGoals = {} => \A c \in Cells(dijkstraMap) : Stored(c) = UNREACHABLE

\* A goal list with a non-walkable tile and an accepted goal.
C3_Witness ==
    /\ lastOp = "generateDijkstraMap"
    /\ \E i, j \in 1..Len(lastGoals) :
          /\ lastGoals[i] \in Cells(dijkstraMap)
          /\ ~Walkable(lastGoals[i])
          /\ Walkable(lastGoals[j])
          /\ Stored(lastGoals[j]) = 0
          /\ Stored(lastGoals[i]) = UNREACHABLE

AllWalkable == lastWalkable.cells = Cells(dijkstraMap)

\* C4: on a grid with every tile walkable and at least one goal, all goals on
\* the grid, every tile holds the least |dx|+|dy| to a goal under Manhattan and
\* the least max(|dx|,|dy|) to a goal under Chebyshev.
C4_OpenGridClosedForm ==
    (/\ Generated
     /\ AllWalkable
     /\ lastGoals # << >>
     /\ Range(lastGoals) \subseteq Cells(dijkstraMap)) =>
        \A c \in Cells(dijkstraMap) :
            /\ dijkstraMap.distanceType = "Manhattan" =>
                  Stored(c) = MinOf({Abs(c[1] - g[1]) + Abs(c[2] - g[2]) :
                                       g \in Range(lastGoals)})
            /\ dijkstraMap.distanceType = "Chebyshev" =>
                  Stored(c) = MinOf({Max(Abs(c[1] - g[1]), Abs(c[2] - g[2])) :
                                       g \in Range(lastGoals)})

\* Two goals on an open 3 x 2 grid under Chebyshev.
C4_Witness ==
    /\ lastOp = "generateDijkstraMap"
    /\ AllWalkable
    /\ dijkstraMap.distanceType = "Chebyshev"
    /\ Cardinality(Range(lastGoals)) = 2
    /\ Range(lastGoals) \subseteq Cells(dijkstraMap)
    /\ \E c \in Cells(dijkstraMap) : Stored(c) = 2

\* C5: diagonal steps are taken iff the metric is Chebyshev.  Under Manhattan
\* and Euclidean every reachable tile that is not a goal was reached from an
\* orthogonal neighbour one step nearer (so a walkable tile with no walkable
\* orthogonal neighbour that is not a goal stays UNREACHABLE, and on an open
\* grid the diagonal neighbour of a single goal holds 2); under Chebyshev a
\* walkable tile is at most one step farther than each of its 8 walkable
\* neighbours (and the diagonal neighbour of a goal holds 1).
C5_DiagonalIffChebyshev ==
    Generated =>
        \A c \in Cells(dijkstraMap) :
            /\ (dijkstraMap.distanceType # "Chebyshev"
                /\ Stored(c) # UNREACHABLE /\ Stored(c) # 0) =>
                  \E n \in Neighbours(c, Orthogonal) : Stored(n) + 1 = Stored(c)
            /\ (dijkstraMap.distanceType # "Chebyshev"
                /\ Walkable(c) /\ c \notin AcceptedGoals
                /\ Neighbours(c, Orthogonal) = {}) =>
                  Stored(c) = UNREACHABLE
            /\ (dijkstraMap.distanceType = "Chebyshev" /\ Walkable(c)) =>
                  \A n \in Neighbours(c, Orthogonal \cup Diagonal) :
                      Stored(n) # UNREACHABLE => Stored(c) <= Stored(n) + 1
            /\ (AllWalkable /\ Cardinality(AcceptedGoals) = 1) =>
                  \A g \in Neighbours(c, Diagonal) :
                      g \in AcceptedGoals =>
                          Stored(c) = IF dijkstraMap.distanceType = "Chebyshev"
                                      THEN 1 ELSE 2

\* Under Manhattan or Euclidean, a walkable tile that stays UNREACHABLE beside a
\* reachable diagonal neighbour.
C5_Witness ==
    /\ Generated
    /\ dijkstraMap.distanceType # "Chebyshev"
    /\ \E c \in Cells(dijkstraMap) :
          /\ Walkable(c)
          /\ Stored(c) = UNREACHABLE
          /\ \E n \in Neighbours(c, Diagonal) : Stored(n) # UNREACHABLE

\* C6: under Euclidean the generated grid is, tile for tile, the grid the same
\* call produces under Manhattan (steps of cost 1 in four directions), not the
\* straight-line distance to the goal.
C6_EuclideanAsManhattan ==
    (Generated /\ dijkstraMap.distanceType = "Euclidean") =>
        dijkstraMap.distances =
            generateDijkstraMap(
                DijkstraMap(dijkstraMap.width, dijkstraMap.height, "Manhattan"),
                lastGoals, lastWalkable).distances

\* A Euclidean generation in which a tile holds more than its straight-line
\* distance to the only goal.
C6_Witness ==
    /\ Generated
    /\ dijkstraMap.distanceType = "Euclidean"
    /\ AllWalkable
    /\ \E g \in AcceptedGoals, c \in Cells(dijkstraMap) :
          /\ AcceptedGoals = {g}
          /\ Stored(c) = 3
          /\ StepCost(g, c) = 2

\* The goal lists of up to MaxGoals + 1 entries with the same set of
\* coordinates as the list of the last generation.
SameGoalSet ==
    {goals \in SeqsUpTo(Range(lastGoals), MaxGoals + 1) :
        Range(goals) = Range(lastGoals)}

\* C7: the generated grid depends on the set of goal coordinates only: every
\* reordering of the goal list, and every list repeating some of its goals,
\* gives the same grid.
C7_GoalOrderAndMultiplicity ==
    Generated =>
        \A goals \in SameGoalSet :
            generateDijkstraMap(Fresh, goals, lastWalkable) = dijkstraMap

\* A generation from a list of two different accepted goals.
C7_Witness ==
    /\ lastOp = "generateDijkstraMap"
    /\ Len(lastGoals) = 2
    /\ Cardinality(AcceptedGoals) = 2
    /\ \E c \in Cells(dijkstraMap) : Stored(c) = 2

\* C8: a generation gives the grid the same call gives on a freshly
\* constructed grid, whatever the grid held before; and a generation that
\* repeats the goals, predicate and metric of the generation before it leaves
\* the grid as that one left it.
C8_IndependentOfPriorContents ==
    Generated =>
        /\ dijkstraMap = generateDijkstraMap(Fresh, lastGoals, lastWalkable)
        /\ (/\ before.op \in {"generateDijkstraMap", "generateDijkstraMapFromSingleGoal"}
            /\ before.goals = lastGoals
            /\ before.walkable = lastWalkable) => dijkstraMap = before.map

\* A generation on a grid holding the distances of another goal set: a tile
\* that held 0 holds it no more.
C8_Witness ==
    /\ Generated
    /\ before.op \in {"generateDijkstraMap", "generateDijkstraMapFromSingleGoal"}
    /\ \E c \in Cells(dijkstraMap) :
          /\ getDistance(before.map, c[1], c[2]) = 0
          /\ Stored(c) \notin {0, UNREACHABLE}

\* C9: generateDijkstraMapFromSingleGoal(map, x, y, isWalkable) leaves the grid
\* as generateDijkstraMap(map, {(x, y)}, isWalkable) does, from the same grid.
C9_SingleGoalWrapper ==
    lastOp = "generateDijkstraMapFromSingleGoal" =>
        /\ Len(lastGoals) = 1
        /\ dijkstraMap = generateDijkstraMap(before.map, lastGoals, lastWalkable)

\* A single-goal generation round a non-walkable tile, on a grid that held
\* distances.
C9_Witness ==
    /\ lastOp = "generateDijkstraMapFromSingleGoal"
    /\ \E c \in Cells(before.map) : getDistance(before.map, c[1], c[2]) # UNREACHABLE
    /\ ~AllWalkable
    /\ \E c \in Cells(dijkstraMap) : Stored(c) = 2

\* C10: findUnreachableTiles returns the tiles that the predicate reports
\* walkable and that hold UNREACHABLE, each once and nothing else.
C10_FindUnreachableTiles ==
    lastOp = "findUnreachableTiles" =>
        /\ Range(unreachableTiles) =
              {c \in Cells(dijkstraMap) : Walkable(c) /\ Stored(c) = UNREACHABLE}
        /\ Cardinality(Range(unreachableTiles)) = Len(unreachableTiles)

\* A scan, with another predicate than the generation's, of a grid with
\* reachable tiles, walkable UNREACHABLE tiles and non-walkable tiles.
C10_Witness ==
    /\ lastOp = "findUnreachableTiles"
    /\ before.walkable # lastWalkable
    /\ Len(unreachableTiles) >= 2
    /\ \E c \in Cells(dijkstraMap) : Stored(c) # UNREACHABLE
    /\ \E c \in Cells(dijkstraMap) : ~Walkable(c) /\ Stored(c) = UNREACHABLE


\* C11: in every state getDistance on a coordinate off the grid returns
\* UNREACHABLE and isReachable returns false for it; a setDistance call on a
\* coordinate off the grid leaves the object (every cell, the dimensions, the
\* metric) as it was and leaves by no exception.
C11_OutOfBoundsAccess ==
    /\ \A x \in -1..dijkstraMap.width, y \in -1..dijkstraMap.height :
          <<x, y>> \notin Cells(dijkstraMap) =>
              /\ getDistance(dijkstraMap, x, y) = UNREACHABLE
              /\ ~isReachable(dijkstraMap, x, y)
    /\ (lastOp = "setDistance" /\ lastCoord \notin Cells(dijkstraMap)) =>
          /\ dijkstraMap = before.map
          /\ threw = "none"

\* setDistance(-1, 0, 0) on a generated grid that holds finite distances.
C11_Witness ==
    /\ lastOp = "setDistance"
    /\ lastCoord = <<-1, 0>>
    /\ before.op = "generateDijkstraMap"
    /\ \E c \in Cells(dijkstraMap) : Stored(c) = 1

\* C12: right after construction, and right after clear() whatever was set or
\* generated before, every tile holds UNREACHABLE and is not reachable; clear()
\* leaves the dimensions and the metric as they were.
C12_FreshAndClearedAreUnreachable ==
    lastOp \in {"DijkstraMap", "clear"} =>
        /\ \A c \in Cells(dijkstraMap) :
              /\ Stored(c) = UNREACHABLE
              /\ ~isReachable(dijkstraMap, c[1], c[2])
        /\ getDimensions(dijkstraMap) = getDimensions(before.map)
        /\ getDistanceType(dijkstraMap) = getDistanceType(before.map)

\* clear() on a grid whose tiles all held finite distances.
C12_Witness ==
    /\ lastOp = "clear"
    /\ before.op = "generateDijkstraMap"
    /\ \A c \in Cells(dijkstraMap) : getDistance(before.map, c[1], c[2]) # UNREACHABLE
    /\ Cardinality(Cells(dijkstraMap)) = MaxWidth * MaxHeight

\* C13: setDistanceType changes the metric tag only: the stored distances and
\* the dimensions are those from before the call; a generation made after the
\* call stores the shortest distances of the metric then set.
C13_SetDistanceTypeChangesTagOnly ==
    /\ lastOp = "setDistanceType" =>
          /\ dijkstraMap.distances = before.map.distances
          /\ getDimensions(dijkstraMap) = getDimensions(before.map)
    /\ (Generated /\ before.op = "setDistanceType") =>
          LET ref == ShortestDistance
          IN  \A c \in Cells(dijkstraMap) :
                  Walkable(c) => Stored(c) = At(ref, c)

\* A Manhattan generation from one goal on an open grid, then a switch to
\* Chebyshev: the tile diagonal to the goal still holds 2, where a Chebyshev
\* generation stores 1.
C13_Witness ==
    /\ lastOp = "setDistanceType"
    /\ before.op = "generateDijkstraMap"
    /\ getDistanceType(before.map) = "Manhattan"
    /\ getDistanceType(dijkstraMap) = "Chebyshev"
    /\ AllWalkable
    /\ lastGoals = << <<0, 0>> >>
    /\ Stored(<<1, 1>>) = 2
    /\ getDistance(generateDijkstraMap(dijkstraMap, lastGoals, lastWalkable), 1, 1) = 1


\* C14: calculateDistance(x1, y1, x2, y2), with dx = x2 - x1 and dy = y2 - y1,
\* returns |dx| + |dy| under Manhattan, the larger of |dx| and |dy| under
\* Chebyshev and the integer nearest to sqrt(dx^2 + dy^2) under Euclidean
\* ((1,1) -> 1, (2,1) -> 2, (2,2) -> 3, (3,4) -> 5, (5,12) -> 13), whatever the
\* grid stores and wherever the coordinates lie, and leaves the object as it was.
\* r is nearest to sqrt(n) iff no integer k is nearer: r + k <= 2 sqrt(n) for
\* k < r and r + k >= 2 sqrt(n) for k > r.
C14_CalculateDistance ==
    lastOp = "calculateDistance" =>
        LET dx == lastCoord[3] - lastCoord[1]
            dy == lastCoord[4] - lastCoord[2]
            n == dx * dx + dy * dy
            r == returned
        IN  /\ getDistanceType(dijkstraMap) = "Manhattan" => r = Abs(dx) + Abs(dy)
            /\ getDistanceType(dijkstraMap) = "Chebyshev" =>
                  /\ r \in {Abs(dx), Abs(dy)}
                  /\ r >= Abs(dx) /\ r >= Abs(dy)
            /\ getDistanceType(dijkstraMap) = "Euclidean" =>
                  /\ r >= 0
                  /\ \A k \in 0..(Abs(dx) + Abs(dy) + 1) :
                        /\ k < r => (r + k) * (r + k) <= 4 * n
                        /\ k > r => (r + k) * (r + k) >= 4 * n
                  /\ <<Abs(dx), Abs(dy)>> = <<1, 1>> => r = 1
                  /\ <<Abs(dx), Abs(dy)>> = <<2, 1>> => r = 2
                  /\ <<Abs(dx), Abs(dy)>> = <<2, 2>> => r = 3
                  /\ <<Abs(dx), Abs(dy)>> = <<3, 4>> => r = 5
                  /\ <<Abs(dx), Abs(dy)>> = <<5, 12>> => r = 13
            /\ dijkstraMap = before.map

\* Euclidean calculateDistance(0, 0, 5, 12) = 13 on a grid whose tile (0,0)
\* was set to 1.
C14_Witness ==
    /\ lastOp = "calculateDistance"
    /\ before.op = "setDistance"
    /\ Stored(<<0, 0>>) = 1
    /\ getDistanceType(dijkstraMap) = "Euclidean"
    /\ lastCoord = <<0, 0, 5, 12>>
    /\ returned = 13


\* C15: no operation signals a failure on malformed input: construction with a
\* negative or zero width or height, and every call made on the object after
\* it, leaves by no exception.
C15_NoFailureOnMalformedInput == threw = "none"


\* C16: every run of generateDijkstraMap terminates: whatever the grid, the goal
\* list (duplicates and rejected entries included) and the predicate, the loop
\* reaches the empty queue and the call returns.
C16_Terminates == (pc = "loop") ~> (pc = "done")

\* A returned run whose goal list names the same walkable tile twice, on a grid
\* with a non-walkable tile.
C16_Witness ==
    /\ pc = "done"
    /\ Len(lastGoals) = 2
    /\ lastGoals[1] = lastGoals[2]
    /\ Walkable(lastGoals[1])
    /\ ~AllWalkable
    /\ \E c \in Cells(dijkstraMap) : Stored(c) = 2

\* C17: the final grid does not depend on the order in which queue entries of
\* equal distance are popped: whichever entry of least distance each iteration
\* pops, the returned grid is the one the code's (distance, x, y) order gives,
\* and it holds the shortest distance on every connected tile and UNREACHABLE
\* on every other.
C17_TieOrderIndependent ==
    pc = "done" =>
        /\ dijkstraMap = generateDijkstraMap(Fresh, lastGoals, lastWalkable)
        /\ LET ref == ShortestDistance
               connected == Connected
           IN  \A c \in Cells(dijkstraMap) :
                   Stored(c) = IF c \in connected THEN At(ref, c) ELSE UNREACHABLE


\* Goals (0,0) and (2,0) both accepted: the entry of (2,0) was popped first and
\* its neighbour queued at distance 1, while the entry (0, 0, 0), the first the
\* code's order pops, is still on the queue.
C17_Witness ==
    /\ pc = "loop"
    /\ AcceptedGoals = {<<0, 0>>, <<2, 0>>}
    /\ Len(theQueue) = 2
    /\ theQueue[1] = <<0, 0, 0>>
    /\ theQueue[2][1] = 1


\* The tile i steps of direction d away from tile g.
LineTile(g, d, i) == <<g[1] + i * d[1], g[2] + i * d[2]>>

\* The straight line from g in direction d is unobstructed up to its tile j:
\* all its tiles are walkable tiles of the grid.
Unobstructed(g, d, j) == \A i \in 0..j : Walkable(LineTile(g, d, i))

\* Along every unobstructed line of one of the directions from goal g, a tile
\* holds no less than the tiles nearer to g.
MonotoneFrom(g, directions) ==
    \A d \in directions, j \in 1..(dijkstraMap.width + dijkstraMap.height) :
        Unobstructed(g, d, j) =>
            \A k \in 0..(j - 1) : Stored(LineTile(g, d, j)) >= Stored(LineTile(g, d, k))

\* Two reachable tiles that are orthogonal neighbours hold distances 1 apart.
OrthogonalNeighboursOneApart ==
    \A a \in Cells(dijkstraMap), b \in Cells(dijkstraMap) :
        (/\ <<b[1] - a[1], b[2] - a[2]>> \in Orthogonal
         /\ isReachable(dijkstraMap, a[1], a[2])
         /\ isReachable(dijkstraMap, b[1], b[2])) =>
            Abs(Stored(a) - Stored(b)) = 1

\* C18 as the claim states it: after any generation, along a straight
\* unobstructed line (row, column or diagonal) from any accepted goal the
\* farther tile holds no less than the nearer one, and under Manhattan and
\* Euclidean orthogonally adjacent reachable tiles differ by exactly 1.
C18_Original ==
    Generated =>
        /\ \A g \in AcceptedGoals : MonotoneFrom(g, Orthogonal \cup Diagonal)
        /\ getDistanceType(dijkstraMap) \in {"Manhattan", "Euclidean"} =>
              OrthogonalNeighboursOneApart

\* C18: after a generation with a single accepted goal, along an unobstructed
\* line from the goal in a direction the metric steps in (row or column, and
\* diagonal under Chebyshev) the farther tile holds no less than the nearer
\* one, and under Manhattan and Euclidean two reachable orthogonally adjacent
\* tiles differ by exactly 1.
C18_MonotoneFromSingleGoal ==
    (Generated /\ Cardinality(AcceptedGoals) = 1) =>
        /\ \A g \in AcceptedGoals : MonotoneFrom(g, Steps)
        /\ getDistanceType(dijkstraMap) \in {"Manhattan", "Euclidean"} =>
              OrthogonalNeighboursOneApart

\* Manhattan, the single goal (0,0), an open row of three tiles from it and a
\* non-walkable tile elsewhere; the tile below the goal is reachable.
C18_Witness ==
    /\ lastOp = "generateDijkstraMap"
    /\ getDistanceType(dijkstraMap) = "Manhattan"
    /\ AcceptedGoals = {<<0, 0>>}
    /\ Unobstructed(<<0, 0>>, <<1, 0>>, 2)
    /\ Stored(<<2, 0>>) = 2
    /\ Stored(<<0, 1>>) = 1
    /\ ~AllWalkable


\* The goal of the last generation is single and has a tile on each of its
\* four sides.
SingleInteriorGoal ==
    /\ Len(lastGoals) = 1
    /\ lastGoals[1][1] > 0 /\ lastGoals[1][1] < dijkstraMap.width - 1
    /\ lastGoals[1][2] > 0 /\ lastGoals[1][2] < dijkstraMap.height - 1

\* Tiles at equal calculateDistance from the goal hold equal stored distances.
EqualMetricEqualStored ==
    LET g == lastGoals[1]
        metric(c) == calculateDistance(dijkstraMap, g[1], g[2], c[1], c[2])
    IN  \A a \in Cells(dijkstraMap), b \in Cells(dijkstraMap) :
            metric(a) = metric(b) => Stored(a) = Stored(b)

\* C19 as the claim states it: on an open grid generated from a single interior
\* goal, under each of the three metrics, tiles at equal metric distance from
\* the goal hold equal stored distances.
C19_Original ==
    (Generated /\ AllWalkable /\ SingleInteriorGoal) => EqualMetricEqualStored

\* C19: on an open grid generated from a single interior goal, under the
\* Manhattan and the Chebyshev metric, tiles at equal metric distance from the
\* goal hold equal stored distances.
C19_SymmetryManhattanChebyshev ==
    (/\ Generated
     /\ AllWalkable
     /\ SingleInteriorGoal
     /\ getDistanceType(dijkstraMap) \in {"Manhattan", "Chebyshev"}) =>
        EqualMetricEqualStored

\* A 3 x 3 open grid generated from its centre under Manhattan: the four
\* corners hold 2.
C19_Witness ==
    /\ Generated
    /\ AllWalkable
    /\ SingleInteriorGoal
    /\ getDistanceType(dijkstraMap) = "Manhattan"
    /\ Stored(<<0, 0>>) = 2
    /\ Stored(<<2, 2>>) = 2
    /\ Stored(<<1, 0>>) = 1


\* The states a run passes through when it executes alone, from `run` on, in
\* at most k steps.
RECURSIVE SoloStates(_, _, _)
SoloStates(run, statics, k) ==
    IF k = 0 \/ run.pc = "done" THEN {run}
    ELSE LET next == runStep(run, statics)
         IN  {run} \cup SoloStates(next.run, next.statics, k - 1)

\* The call as it was made: the arguments, and the grid as constructed.
AsCalled(run) ==
    [run EXCEPT !.map = DijkstraMap(run.map.width, run.map.height, run.map.distanceType),
                !.queue = << >>, !.pc = "idle"]

\* A bound on the steps of a run: the call, the return, and one iteration for
\* each queue entry (a goal, or a tile when its distance is first stored).
StepsOf(run) == 2 + Len(run.goals) + run.map.width * run.map.height

\* C20: two generateDijkstraMap runs on two grids, their steps interleaved in
\* any order: each run is at every moment in a state it passes through when it
\* executes alone, and a returned run leaves its grid with the contents
\* generateDijkstraMap gives it alone.
C20_RunsDoNotInterfere ==
    \A i \in 1..2 :
        LET run == runs.run[i]
            start == AsCalled(run)
        IN  /\ run \in SoloStates(start, Uninitialised, StepsOf(run))
            /\ run.pc = "done" =>
                  run.map = generateDijkstraMap(start.map, run.goals, run.walkable)

\* A Manhattan run and a Chebyshev run, both in their loops with entries
\* queued, each having stored a distance on its own grid.
C20_Witness ==
    /\ getDistanceType(runs.run[1].map) = "Manhattan"
    /\ getDistanceType(runs.run[2].map) = "Chebyshev"
    /\ \A i \in 1..2 :
          /\ runs.run[i].pc = "loop"
          /\ runs.run[i].queue # << >>
          /\ getDistance(runs.run[i].map, 1, 0) = 1

\* ------------------------------------------------- seeding of repeated goals
\* The queue entries that seeding pushed: every entry pushed during the loop
\* has a distance of at least one step, so those at distance 0 are the seeds.
Seeds == {i \in 1..Len(theQueue) : theQueue[i][1] = 0}

\* C21: a goal that occurs more than once in the list is seeded once; the
\* queue never holds two seed entries for the same coordinate.
C21_DuplicateGoalsSeededOnce ==
    pc = "loop" =>
        \A i, j \in Seeds :
            (theQueue[i][2] = theQueue[j][2] /\ theQueue[i][3] = theQueue[j][3])
                => i = j

\* ------------------------------------------------- the sentinel in arithmetic
\* A distance the generator may handle: at least 0 and below the sentinel.
Finite(d) == d \in 0..(UNREACHABLE - 1)

\* The values of newDistance computed by the iteration about to run.
NewDistancesNow ==
    IF pc = "loop" /\ theQueue # << >>
    THEN newDistances([map |-> dijkstraMap, queue |-> theQueue],
                      getDirections(getDistanceType(dijkstraMap)), lastWalkable)
    ELSE {}

\* C22: in every state of a run each queue entry's distance and each computed
\* newDistance is at least 0 and strictly below UNREACHABLE, and every write
\* of the loop stores such a value, so that a cell holds UNREACHABLE only if
\* nothing was written to it since the clear.
C22_SentinelNeverInArithmetic ==
    /\ [](/\ \A i \in 1..Len(theQueue) : Finite(theQueue[i][1])
          /\ \A d \in NewDistancesNow : Finite(d)
          /\ pc # "idle" => \A g \in AcceptedGoals : Finite(Stored(g)))
    /\ [][pc = "loop" =>
            \A c \in Cells(dijkstraMap) :
                Stored(c)' # Stored(c) => Finite(Stored(c)')]_vars

\* A finished run that accumulated at least two steps and left a walkable
\* tile unwritten.
C22_Witness ==
    /\ pc = "done"
    /\ \E c \in Cells(dijkstraMap) : Walkable(c) /\ Stored(c) = UNREACHABLE
    /\ \E c \in Cells(dijkstraMap) : Stored(c) \in 2..(UNREACHABLE - 1)

\* ------------------------------------------------- where the predicate is invoked
\* The predicate that answers the opposite of `walkable` off the grid.
OtherOffGrid(walkable) == [walkable EXCEPT !.outside = ~walkable.outside]

\* The generator state of the current step.
Now == [map |-> dijkstraMap, queue |-> theQueue]

\* C23: the predicate is invoked on coordinates of the grid only, in seeding,
\* in every loop iteration and in the scan of findUnreachableTiles, also when
\* the goal list holds out-of-bounds coordinates; what the predicate would
\* answer off the grid therefore has no effect on any of the three.
C23_PredicateInvokedInBoundsOnly ==
    /\ pc = "loop" =>
          /\ initializeGoalsAsks(dijkstraMap, lastGoals) \subseteq Cells(dijkstraMap)
          /\ initializeGoals([map |-> clear(dijkstraMap), queue |-> << >>],
                             lastGoals, lastWalkable)
                = initializeGoals([map |-> clear(dijkstraMap), queue |-> << >>],
                                  lastGoals, OtherOffGrid(lastWalkable))
    /\ (pc = "loop" /\ theQueue # << >>) =>
          /\ floodFillStepAsks(Now, getDirections(getDistanceType(dijkstraMap)))
                \subseteq Cells(dijkstraMap)
          /\ floodFillStep(Now, getDirections(getDistanceType(dijkstraMap)),
                           lastWalkable)
                = floodFillStep(Now, getDirections(getDistanceType(dijkstraMap)),
                                OtherOffGrid(lastWalkable))
    /\ pc = "scanned" =>
          /\ findUnreachableTilesAsks(dijkstraMap) \subseteq Cells(dijkstraMap)
          /\ unreachableTiles
                = findUnreachableTiles(dijkstraMap, OtherOffGrid(lastWalkable))

\* A run seeded from a list with an out-of-bounds goal and an accepted one,
\* whose result has been scanned.
C23_Witness ==
    /\ pc = "scanned"
    /\ \E i \in 1..Len(lastGoals) :
          ~isWithinBounds(dijkstraMap, lastGoals[i][1], lastGoals[i][2])
    /\ \E c \in Cells(dijkstraMap) : Stored(c) = 1

\* ------------------------------------------------- a tile is written once
\* C24: during a run, once the grid is cleared, a tile that holds a value other
\* than UNREACHABLE keeps it to the end of the run, and that value is the
\* tile's shortest distance from the accepted goals: a tile changes at most
\* once, from UNREACHABLE to its final distance.
C24_WrittenOnceWithFinalValue ==
    /\ [](pc \in {"loop", "done"} =>
            \A c \in Cells(dijkstraMap) :
                Stored(c) # UNREACHABLE => Stored(c) = At(ShortestDistance, c))
    /\ [][pc = "loop" =>
            \A c \in Cells(dijkstraMap) :
                Stored(c) # UNREACHABLE => Stored(c)' = Stored(c)]_vars

\* The middle of a run: a tile already holds a distance of two steps or more
\* while a tile connected to the goals is still UNREACHABLE.
C24_Witness ==
    /\ pc = "loop"
    /\ theQueue # << >>
    /\ \E c \in Cells(dijkstraMap) : Stored(c) \in 2..(UNREACHABLE - 1)
    /\ \E c \in Connected : Stored(c) = UNREACHABLE

\* ------------------------------------------------- no stale entry
\* C25: at every loop test of a run, the entry about to be popped, like every
\* other entry of the queue, carries the distance stored for its coordinate,
\* so the test "popped distance > stored distance" is false at every pop.
C25_PoppedEntryIsCurrent ==
    pc = "loop" =>
        /\ \A i \in 1..Len(theQueue) :
              theQueue[i][1] = Stored(<<theQueue[i][2], theQueue[i][3]>>)
        /\ theQueue # << >> =>
              ~(QueueTop(theQueue)[1]
                  > getDistance(dijkstraMap, QueueTop(theQueue)[2], QueueTop(theQueue)[3]))

\* The second entry of a repeated goal is about to be popped, after the first
\* one was expanded and pushed the goal's neighbours.
C25_Witness ==
    /\ pc = "loop"
    /\ Len(lastGoals) = 2
    /\ lastGoals[1] = lastGoals[2]
    /\ theQueue # << >>
    /\ QueueTop(theQueue)[1] = 0
    /\ \E i \in 1..Len(theQueue) : theQueue[i][1] >= 1

\* ------------------------------------------------- the order of the pops
\* C26: every step taken during a run costs 1 (each newDistance is the popped
\* distance plus 1); after a pop every entry left in the queue has the popped
\* distance or that distance plus 1, so the next entry popped has a distance
\* at least as great: popped distances never decrease.
C26_PopsNonDecreasing ==
    /\ []((pc = "loop" /\ theQueue # << >>) =>
            \A d \in NewDistancesNow : d = QueueTop(theQueue)[1] + 1)
    /\ [][(pc = "loop" /\ theQueue # << >>) =>
            /\ \A i \in 1..Len(theQueue') :
                  theQueue'[i][1] \in {QueueTop(theQueue)[1], QueueTop(theQueue)[1] + 1}
            /\ theQueue' # << >> => QueueTop(theQueue')[1] >= QueueTop(theQueue)[1]]_vars

\* A loop test of a run under Chebyshev with entries of two distances queued,
\* pushed by earlier iterations.
C26_Witness ==
    /\ pc = "loop"
    /\ \E i, j \in 1..Len(theQueue) : theQueue[i][1] = 1 /\ theQueue[j][1] = 2
    /\ getDistanceType(dijkstraMap) = "Chebyshev"

\* ------------------------------------------------- neighbouring tiles
\* Tiles a and b are both UNREACHABLE, or both reachable and at most 1 apart.
Alike(a, b) ==
    \/ Stored(a) = UNREACHABLE /\ Stored(b) = UNREACHABLE
    \/ /\ Stored(a) # UNREACHABLE
       /\ Stored(b) # UNREACHABLE
       /\ Abs(Stored(a) - Stored(b)) <= 1

\* C27: after a generation, whatever the goals and the predicate, two walkable
\* tiles that are neighbours under the metric's neighbourhood (4 orthogonal
\* steps for Manhattan and Euclidean, 8 for Chebyshev) are both UNREACHABLE or
\* both reachable with stored distances at most 1 apart.
C27_NeighboursAtMostOneApart ==
    Generated =>
        \A a \in Cells(dijkstraMap) :
            Walkable(a) => \A b \in Neighbours(a, Steps) : Alike(a, b)

\* A generation that left two neighbouring walkable tiles UNREACHABLE behind
\* non-walkable tiles and two other neighbouring tiles one step apart.
C27_Witness ==
    /\ Generated
    /\ \E a \in Cells(dijkstraMap) :
          /\ Walkable(a)
          /\ Stored(a) = UNREACHABLE
          /\ \E b \in Neighbours(a, Steps) : Stored(b) = UNREACHABLE
    /\ \E a \in Cells(dijkstraMap) :
          /\ Walkable(a)
          /\ Stored(a) # UNREACHABLE
          /\ \E b \in Neighbours(a, Steps) : Stored(b) = Stored(a) + 1

====
